---- MODULE Spec2Model ----
(***************************************************************************)
(* Model of the myloader data-restore dispatcher                           *)
(* (src/src/myloader/myloader_worker_loader_main.c).                       *)
(*                                                                         *)
(* The dispatcher thread (worker_loader_main_thread) and its helpers       *)
(* (give_me_next_data_job_conf, enqueue_table_if_ready_locked,             *)
(* wake_threads_waiting, wake_data_threads) are translated from the C      *)
(* source.  The threads around it (the parser that adds restore jobs, the  *)
(* schema workers, the index workers and the data workers) live in other   *)
(* files of the repository; they are modelled from the specification's     *)
(* interface description and are marked as such below.                     *)
(*                                                                         *)
(* Granularity: one action per critical section of the dispatcher.  The    *)
(* g_async_queue_try_pop of the ready queue, the table critical section    *)
(* that follows it, each table visit of the fallback scan, and the code    *)
(* after give_me_next_data_job_conf returns are separate steps, so other   *)
(* threads interleave exactly where the C code holds no table lock.        *)
(* The scan's unlocked read of dbt->database->schema_state (line 194) is   *)
(* a step of its own, before the table's critical section; so is the       *)
(* wake_data_threads call inside enqueue_table_if_ready_locked, which      *)
(* waits for threads_waiting_mutex while the table lock is held.           *)
(* The loop of wake_threads_waiting pushes one REQUEST_DATA_JOB per        *)
(* iteration with data_control_queue_push, which takes no mutex: every     *)
(* iteration after the first is a step of its own, so that events pushed   *)
(* by other threads can land between two of the requests.                  *)
(* The statistics counters dispatch_iterations, queue_hits, queue_misses   *)
(* only feed log output and are left out.                                  *)
(***************************************************************************)
EXTENDS Integers, Sequences, FiniteSets

\* ------------------------------------------------------------------ bounds
\* Number of restore jobs the parser adds over the whole run.
MaxJobs == 2

\* Number of enqueue_table_if_ready calls made apart from the table
\* transitions, in the runs that make such calls.
MaxNotify == 2

\* The values num_threads, the number of data workers, is configured to.
ThreadChoices == {1, 2}

Tables == {"t1", "t2"}

\* The threads of the lock-level runs: the dispatcher and two threads that
\* call enqueue_table_if_ready and wake_data_threads.
LockThreads == {"d", "n1", "n2"}

\* enum schema_status, in declaration order (line 203 compares with >=).
NOT_FOUND == 0
NOT_CREATED == 1
CREATING == 2
CREATED == 3
DATA_DONE == 4
ALL_DONE == 5

\* A table's static attributes as the dump defines them:
\* max_threads, object_to_export.no_data, is_view, is_sequence.
Profiles ==
  { [max_threads |-> 1, no_data |-> FALSE, is_view |-> FALSE, is_sequence |-> FALSE],
    [max_threads |-> 2, no_data |-> FALSE, is_view |-> FALSE, is_sequence |-> FALSE],
    [max_threads |-> 1, no_data |-> TRUE,  is_view |-> FALSE, is_sequence |-> FALSE],
    [max_threads |-> 1, no_data |-> FALSE, is_view |-> TRUE,  is_sequence |-> FALSE],
    [max_threads |-> 1, no_data |-> FALSE, is_view |-> FALSE, is_sequence |-> TRUE] }

\* The rj pointer when no job was found (NULL).
NoJob == [dbt |-> "NULL", id |-> 0]

\* The table pointer when the ready queue gave nothing (NULL).
NoTable == "NULL"

VARIABLES
  num_threads,          \* num_threads (line 316), fixed over a run
  profile,              \* per table: its static attributes
  loading_table_list,   \* conf->loading_table_list, the scan order
  dump_jobs,            \* number of data jobs the dump holds, fixed over a run
  schema_state,         \* dbt->schema_state
  db_schema_state,      \* dbt->database->schema_state (one database)
  restore_job_list,     \* dbt->restore_job_list: job ids, head first
  job_count,            \* dbt->job_count
  current_threads,      \* dbt->current_threads
  remaining_jobs,       \* dbt->remaining_jobs
  in_ready_queue,       \* dbt->in_ready_queue
  ready_table_queue,    \* conf->ready_table_queue
  data_control_queue,   \* data_control_queue
  data_job_queue,       \* the job channel drained by the data workers
  threads_waiting,      \* threads_waiting
  all_jobs_are_enqueued,
  control_job_ended,
  tables_all_done,      \* conf->tables_all_done
  d_pc,                 \* dispatcher position
  d_dbt,                \* dispatcher: table popped from the ready queue
  d_iter,               \* dispatcher: index of iter in loading_table_list
  d_giveup,             \* dispatcher: giveup
  d_rj,                 \* dispatcher: rj
  w_pc,                 \* data worker position
  w_job,                \* data worker: the job it executes
  parser_pc,            \* parser position
  jobs_added,           \* per table: number of jobs the parser added
  dispatched,           \* history: per table, job ids pushed to the job channel
  dispatch_log,         \* history: per table, the path of each dispatch, in order
  last_dispatch,        \* history: the latest dispatch, whether its table
                        \* was in the ready queue, and the other tables that
                        \* were queued and eligible when it was made
  index_enqueued,       \* history: per table, who called enqueue_index_for_dbt_if_possible
  optimize_started,     \* history: calls of start_optimize_keys_all_tables
  ended_empty,          \* history: FILE_TYPE_ENDED was handled with no job ever
                        \* added and every table terminal or skipped by the scan
  notified,             \* history: tables of the enqueue_table_if_ready calls
                        \* made apart from the table transitions
  wake_pending,         \* per table: the thread that holds the table lock
                        \* between the push of line 71 and the
                        \* wake_data_threads call of line 79, or "none"
  wake_loop,            \* the thread that holds threads_waiting_mutex inside
                        \* the loop of wake_threads_waiting, or "none"
  lk_pc,                \* lock-level runs: per thread, the line it is at
  lk_held,              \* lock-level runs: per thread, the locks it holds, in
                        \* the order it took them
  lk_dbt,               \* lock-level runs: per thread, its dbt
  lk_ret,               \* lock-level runs: per thread, where wake_data_threads
                        \* returns to
  lk_iter               \* lock-level runs: the scan's iter (index in the list)

confVars == <<num_threads, profile, loading_table_list, dump_jobs>>
lockVars == <<lk_pc, lk_held, lk_dbt, lk_ret, lk_iter>>
tableVars == <<schema_state, restore_job_list, job_count, current_threads,
               remaining_jobs, in_ready_queue>>
queueVars == <<ready_table_queue, data_control_queue, data_job_queue>>
dispVars == <<d_pc, d_dbt, d_iter, d_giveup, d_rj>>
workerVars == <<w_pc, w_job>>
histVars == <<dispatched, dispatch_log, last_dispatch, index_enqueued, optimize_started,
                 ended_empty>>

vars == <<num_threads, profile, loading_table_list, dump_jobs, notified,
          wake_pending, wake_loop,
          lk_pc, lk_held, lk_dbt, lk_ret, lk_iter,
          schema_state, db_schema_state,
          restore_job_list, job_count, current_threads, remaining_jobs,
          in_ready_queue, ready_table_queue, data_control_queue,
          data_job_queue, threads_waiting, all_jobs_are_enqueued,
          control_job_ended, tables_all_done, d_pc, d_dbt, d_iter, d_giveup,
          d_rj, w_pc, w_job, parser_pc, jobs_added, dispatched,
          dispatch_log, last_dispatch, index_enqueued, optimize_started,
                 ended_empty>>

\* The data workers of the run.
Workers == 1 .. num_threads

\* ------------------------------------------------------------- helpers
RECURSIVE SumOver(_, _)
SumOver(f, S) ==
  IF S = {} THEN 0
  ELSE LET x == CHOOSE y \in S : TRUE IN f[x] + SumOver(f, S \ {x})

RECURSIVE Occurrences(_, _)
Occurrences(s, x) ==
  IF s = <<>> THEN 0
  ELSE (IF Head(s) = x THEN 1 ELSE 0) + Occurrences(Tail(s), x)

RECURSIVE Repeat(_, _)
Repeat(x, n) == IF n = 0 THEN <<>> ELSE <<x>> \o Repeat(x, n - 1)

\* wake_data_threads (lines 300-311): the control queue after the call.
wake_data_threads(q) ==
  IF threads_waiting > 0 THEN Append(q, "WAKE_DATA_THREAD") ELSE q

\* Mutant of ReadyToEnqueue: the in_ready_queue guard (line 66) is missing.
ReadyToEnqueue_NoFlag(t, ss, jc, ct, inq) ==
  /\ ss = CREATED
  /\ jc > 0
  /\ ct < profile[t].max_threads
  /\ ~profile[t].no_data
  /\ ~profile[t].is_view
  /\ ~profile[t].is_sequence

\* Mutant of ReadyToEnqueue: the no_data guard (line 67) is missing.
ReadyToEnqueue_NoDataAllowed(t, ss, jc, ct, inq) ==
  /\ ss = CREATED
  /\ jc > 0
  /\ ct < profile[t].max_threads
  /\ ~inq
  /\ ~profile[t].is_view
  /\ ~profile[t].is_sequence

\* The readiness test of enqueue_table_if_ready_locked (lines 63-69) on a
\* table whose fields have the given values.
ReadyToEnqueue(t, ss, jc, ct, inq) ==
  /\ ss = CREATED
  /\ jc > 0
  /\ ct < profile[t].max_threads
  /\ ~inq
  /\ ~profile[t].no_data
  /\ ~profile[t].is_view
  /\ ~profile[t].is_sequence

\* Mutant of ReadyQueuePush: the table is put at the head of the queue.
ReadyQueuePush_Front(q, t) == <<t>> \o q

\* g_async_queue_push(conf->ready_table_queue, dbt) (line 71): the table
\* goes to the tail.
ReadyQueuePush(q, t) == Append(q, t)

\* The table lock of t is held by a thread that is inside
\* enqueue_table_if_ready_locked, before its wake_data_threads call.
TableLocked(t) == wake_pending[t] # "none"

\* Thread o is inside enqueue_table_if_ready_locked.
Busy(o) == \E t \in Tables : wake_pending[t] = o

\* enqueue_table_if_ready_locked up to its wake_data_threads call (lines
\* 55-78), called by thread o with the table lock held, on table t whose
\* fields now have the values ss, jc, ct, inq.  Sets in_ready_queue,
\* ready_table_queue and wake_pending: wake_data_threads waits for
\* threads_waiting_mutex (line 305), so it is a step of its own
\* (WakeAfterEnqueue) that other threads may precede.
enqueue_table_if_ready_locked(t, ss, jc, ct, inq, o) ==
  IF ReadyToEnqueue(t, ss, jc, ct, inq)
  THEN /\ in_ready_queue' = [in_ready_queue EXCEPT ![t] = TRUE]
       /\ ready_table_queue' = ReadyQueuePush(ready_table_queue, t)
       /\ wake_pending' = [wake_pending EXCEPT ![t] = o]
  ELSE /\ in_ready_queue' = [in_ready_queue EXCEPT ![t] = inq]
       /\ UNCHANGED <<ready_table_queue, wake_pending>>

\* The name of data worker w as a holder of a table lock.
WorkerOwner(w) == IF w = 1 THEN "w1" ELSE "w2"

\* threads_waiting_mutex is held by a thread inside the loop of
\* wake_threads_waiting.
MutexHeld == wake_loop # "none"

\* wake_threads_waiting (lines 285-298) called by thread o on the control
\* queue q, up to the first push of its loop: threads_waiting_mutex is
\* taken, and with threads_waiting > 0 one REQUEST_DATA_JOB is pushed and
\* the counter goes down by one.  data_control_queue_push takes no mutex, so
\* every further iteration is a step of its own (WakeLoopPush) that other
\* threads' pushes may precede; the mutex is released when the counter is 0.
wake_threads_waiting(q, o) ==
  IF threads_waiting = 0
  THEN data_control_queue' = q /\ UNCHANGED <<threads_waiting, wake_loop>>
  ELSE /\ data_control_queue' = Append(q, "REQUEST_DATA_JOB")
       /\ threads_waiting' = threads_waiting - 1
       /\ wake_loop' = IF threads_waiting - 1 = 0 THEN "none" ELSE o

\* ---------------------------------------------------------------- Init
InitWith(jobs) ==
  /\ dump_jobs = jobs
  /\ notified = <<>>
  /\ wake_pending = [t \in Tables |-> "none"]
  /\ wake_loop = "none"
  /\ lk_pc = [th \in LockThreads |-> IF th = "d" THEN "l324" ELSE "idle"]
  /\ lk_held = [th \in LockThreads |-> <<>>]
  /\ lk_dbt = [th \in LockThreads |-> NoTable]
  /\ lk_ret = [th \in LockThreads |-> "none"]
  /\ lk_iter = 0
  /\ num_threads \in ThreadChoices
  /\ profile \in [Tables -> Profiles]
  /\ profile["t1"].max_threads \in {1, 2}
  /\ ~profile["t1"].no_data /\ ~profile["t1"].is_view /\ ~profile["t1"].is_sequence
  /\ loading_table_list = <<"t1", "t2">>
  /\ schema_state = [t \in Tables |-> NOT_CREATED]
  /\ db_schema_state = CREATED
  /\ restore_job_list = [t \in Tables |-> <<>>]
  /\ job_count = [t \in Tables |-> 0]
  /\ current_threads = [t \in Tables |-> 0]
  /\ remaining_jobs = [t \in Tables |-> 0]
  /\ in_ready_queue = [t \in Tables |-> FALSE]
  /\ ready_table_queue = <<>>
  /\ data_control_queue = <<>>
  /\ data_job_queue = <<>>
  /\ threads_waiting = 0
  /\ all_jobs_are_enqueued = FALSE
  /\ control_job_ended = FALSE
  /\ tables_all_done = 0
  /\ d_pc = "pop"
  /\ d_dbt = NoTable
  /\ d_iter = 0
  /\ d_giveup = TRUE
  /\ d_rj = NoJob
  /\ w_pc = [w \in 1 .. num_threads |-> "request"]
  /\ w_job = [w \in 1 .. num_threads |-> NoJob]
  /\ parser_pc = "schema"
  /\ jobs_added = [t \in Tables |-> 0]
  /\ dispatched = [t \in Tables |-> <<>>]
  /\ dispatch_log = [t \in Tables |-> <<>>]
  /\ last_dispatch = [dbt |-> NoTable, path |-> "none", queued |-> FALSE, waiting |-> {}]
  /\ index_enqueued = [t \in Tables |-> <<>>]
  /\ optimize_started = 0
  /\ ended_empty = FALSE

\* A dump of MaxJobs data jobs.
Init == InitWith(MaxJobs)


\* --------------------------------------------------------------- parser
\* Table.add_job: under the table lock, appends the job, counts it in
\* job_count and remaining_jobs (expected_jobs), then notifies.  The parser
\* adds no job once it has posted FILE_TYPE_ENDED.
ParserAddJob(t) ==
  /\ parser_pc # "done"
  /\ ~Busy("parser")
  /\ ~TableLocked(t)
  /\ SumOver(jobs_added, Tables) < dump_jobs
  /\ jobs_added' = [jobs_added EXCEPT ![t] = @ + 1]
  /\ restore_job_list' = [restore_job_list EXCEPT ![t] = Append(@, jobs_added[t] + 1)]
  /\ job_count' = [job_count EXCEPT ![t] = @ + 1]
  /\ remaining_jobs' = [remaining_jobs EXCEPT ![t] = @ + 1]
  /\ enqueue_table_if_ready_locked(t, schema_state[t], job_count[t] + 1,
                                   current_threads[t], in_ready_queue[t],
                                   "parser")
  /\ UNCHANGED <<confVars, notified, lockVars, wake_loop, schema_state, db_schema_state,
                 current_threads, data_job_queue, data_control_queue,
                 threads_waiting,
                 all_jobs_are_enqueued, control_job_ended, tables_all_done,
                 dispVars, workerVars, parser_pc, histVars>>

\* The parser posts FILE_TYPE_SCHEMA_ENDED when the schema definitions are
\* exhausted (data_control_queue_push, lines 105-114).
ParserSchemaEnded ==
  /\ parser_pc = "schema"
  /\ ~Busy("parser")
  /\ parser_pc' = "data"
  /\ data_control_queue' = Append(data_control_queue, "FILE_TYPE_SCHEMA_ENDED")
  /\ UNCHANGED <<confVars, notified, lockVars, wake_loop, wake_pending, tableVars, db_schema_state,
                 ready_table_queue, data_job_queue, threads_waiting,
                 all_jobs_are_enqueued, control_job_ended, tables_all_done,
                 dispVars, workerVars, jobs_added, histVars>>

\* The parser posts FILE_TYPE_ENDED when the whole dump is exhausted.
ParserFileEnded ==
  /\ parser_pc = "data"
  /\ ~Busy("parser")
  /\ parser_pc' = "done"
  /\ data_control_queue' = Append(data_control_queue, "FILE_TYPE_ENDED")
  /\ UNCHANGED <<confVars, notified, lockVars, wake_loop, wake_pending, tableVars, db_schema_state,
                 ready_table_queue, data_job_queue, threads_waiting,
                 all_jobs_are_enqueued, control_job_ended, tables_all_done,
                 dispVars, workerVars, jobs_added, histVars>>

\* ------------------------------------------------------- schema workers
\* A table's DDL completed: schema_state = CREATED under the table lock,
\* then enqueue_table_if_ready_locked.
SchemaCreated(t) ==
  /\ schema_state[t] = NOT_CREATED
  /\ db_schema_state # NOT_FOUND
  /\ ~TableLocked(t)
  /\ schema_state' = [schema_state EXCEPT ![t] = CREATED]
  /\ enqueue_table_if_ready_locked(t, CREATED, job_count[t],
                                   current_threads[t], in_ready_queue[t],
                                   "schema")
  /\ UNCHANGED <<confVars, notified, lockVars, wake_loop, db_schema_state,
                 restore_job_list, job_count, current_threads, remaining_jobs,
                 data_job_queue, data_control_queue, threads_waiting, all_jobs_are_enqueued,
                 control_job_ended, tables_all_done, dispVars, workerVars,
                 parser_pc, jobs_added, histVars>>

\* A table's DDL failed: the containing database becomes NOT_FOUND and all
\* waiting threads are woken (wake_all).
SchemaFailed(t) ==
  /\ schema_state[t] = NOT_CREATED
  /\ db_schema_state # NOT_FOUND
  /\ ~MutexHeld
  /\ db_schema_state' = NOT_FOUND
  /\ wake_threads_waiting(data_control_queue, "schema")
  /\ UNCHANGED <<confVars, notified, lockVars, wake_pending, tableVars, ready_table_queue,
                 data_job_queue, all_jobs_are_enqueued, control_job_ended,
                 tables_all_done, dispVars, workerVars, parser_pc, jobs_added,
                 histVars>>

\* -------------------------------------------------------- index workers
\* The index path moves a DATA_DONE table to ALL_DONE once its indexes are
\* built.
IndexDone(t) ==
  /\ schema_state[t] = DATA_DONE
  /\ ~TableLocked(t)
  /\ schema_state' = [schema_state EXCEPT ![t] = ALL_DONE]
  /\ UNCHANGED <<confVars, notified, lockVars, wake_loop, wake_pending, db_schema_state,
                 restore_job_list, job_count, current_threads, remaining_jobs,
                 in_ready_queue, queueVars, threads_waiting,
                 all_jobs_are_enqueued, control_job_ended, tables_all_done,
                 dispVars, workerVars, parser_pc, jobs_added, histVars>>

\* --------------------------------------------------------- data workers
\* A data worker posts REQUEST_DATA_JOB and then blocks on the job channel.
WorkerRequest(w) ==
  /\ w_pc[w] = "request"
  /\ ~Busy(WorkerOwner(w))
  /\ w_pc' = [w_pc EXCEPT ![w] = "wait"]
  /\ data_control_queue' = Append(data_control_queue, "REQUEST_DATA_JOB")
  /\ UNCHANGED <<confVars, notified, lockVars, wake_loop, wake_pending, tableVars, db_schema_state,
                 ready_table_queue, data_job_queue, threads_waiting,
                 all_jobs_are_enqueued, control_job_ended, tables_all_done,
                 dispVars, w_job, parser_pc, jobs_added, histVars>>

\* The worker takes the head of the job channel: a DATA_JOB to execute, or
\* SHUTDOWN, on which it exits.
WorkerTake(w) ==
  /\ w_pc[w] = "wait"
  /\ data_job_queue # <<>>
  /\ data_job_queue' = Tail(data_job_queue)
  /\ IF Head(data_job_queue).dbt = "SHUTDOWN"
     THEN /\ w_pc' = [w_pc EXCEPT ![w] = "exited"]
          /\ UNCHANGED w_job
     ELSE /\ w_pc' = [w_pc EXCEPT ![w] = "exec"]
          /\ w_job' = [w_job EXCEPT ![w] = Head(data_job_queue)]
  /\ UNCHANGED <<confVars, notified, lockVars, wake_loop, wake_pending, tableVars, db_schema_state,
                 ready_table_queue, data_control_queue, threads_waiting,
                 all_jobs_are_enqueued, control_job_ended, tables_all_done,
                 dispVars, parser_pc, jobs_added, histVars>>

\* on_job_complete: under the table lock, in_flight and expected_jobs go
\* down by one and the table is re-notified; if that did not enqueue and
\* the table is now finalizable it is finalized (maybe_finalize) with a
\* wake-up.
WorkerComplete(w) ==
  LET t == w_job[w].dbt
      ct == current_threads[t] - 1
      rem == remaining_jobs[t] - 1
      enq == ReadyToEnqueue(t, schema_state[t], job_count[t], ct, in_ready_queue[t])
      fin == /\ ~enq
             /\ all_jobs_are_enqueued
             /\ schema_state[t] = CREATED
             /\ job_count[t] = 0
             /\ ct = 0
             /\ rem = 0
  IN /\ w_pc[w] = "exec"
     /\ ~TableLocked(t)
     /\ fin => ~MutexHeld
     /\ w_pc' = [w_pc EXCEPT ![w] = "request"]
     /\ w_job' = [w_job EXCEPT ![w] = NoJob]
     /\ current_threads' = [current_threads EXCEPT ![t] = ct]
     /\ remaining_jobs' = [remaining_jobs EXCEPT ![t] = rem]
     /\ IF fin
        THEN /\ schema_state' = [schema_state EXCEPT ![t] = DATA_DONE]
             /\ index_enqueued' = [index_enqueued EXCEPT ![t] = Append(@, "worker")]
             /\ data_control_queue' = wake_data_threads(data_control_queue)
             /\ UNCHANGED <<in_ready_queue, ready_table_queue, wake_pending>>
        ELSE /\ enqueue_table_if_ready_locked(t, schema_state[t], job_count[t],
                                              ct, in_ready_queue[t],
                                              WorkerOwner(w))
             /\ UNCHANGED <<schema_state, index_enqueued, data_control_queue>>
     /\ UNCHANGED <<confVars, notified, lockVars, wake_loop, db_schema_state,
                    restore_job_list, job_count, data_job_queue,
                    threads_waiting, all_jobs_are_enqueued, control_job_ended,
                    tables_all_done, dispVars, parser_pc, jobs_added,
                    dispatched, dispatch_log, last_dispatch, optimize_started,
                 ended_empty>>


\* ----------------------------------------------------------- dispatcher
\* A table the fallback scan passes over without touching giveup: its
\* database is NOT_FOUND (lines 194-197), or it is terminal or a created
\* view or sequence (lines 203-208).
SkippedOrTerminal(t) ==
  \/ db_schema_state = NOT_FOUND
  \/ schema_state[t] >= DATA_DONE
  \/ (schema_state[t] = CREATED /\ (profile[t].is_view \/ profile[t].is_sequence))

\* After the switch (lines 328-383) the loop blocks on the control queue
\* again.
HandleWake ==
  /\ d_pc = "pop"
  /\ ~MutexHeld
  /\ data_control_queue # <<>>
  /\ Head(data_control_queue) = "WAKE_DATA_THREAD"
  /\ wake_threads_waiting(Tail(data_control_queue), "d")
  /\ UNCHANGED <<confVars, notified, lockVars, wake_pending, tableVars, db_schema_state,
                 ready_table_queue, data_job_queue, all_jobs_are_enqueued,
                 control_job_ended, tables_all_done, dispVars, workerVars,
                 parser_pc, jobs_added, histVars>>

\* case FILE_TYPE_SCHEMA_ENDED (lines 375-378).
HandleSchemaEnded ==
  /\ d_pc = "pop"
  /\ ~MutexHeld
  /\ data_control_queue # <<>>
  /\ Head(data_control_queue) = "FILE_TYPE_SCHEMA_ENDED"
  /\ wake_threads_waiting(Tail(data_control_queue), "d")
  /\ UNCHANGED <<confVars, notified, lockVars, wake_pending, tableVars, db_schema_state,
                 ready_table_queue, data_job_queue, all_jobs_are_enqueued,
                 control_job_ended, tables_all_done, dispVars, workerVars,
                 parser_pc, jobs_added, histVars>>

\* case FILE_TYPE_ENDED up to line 365.  refresh_table_list leaves
\* loading_table_list as it is, since every table of the dump is listed from
\* the start; enqueue_indexes_if_possible works on the index queue only.
HandleFileEnded ==
  /\ d_pc = "pop"
  /\ ~MutexHeld
  /\ data_control_queue # <<>>
  /\ Head(data_control_queue) = "FILE_TYPE_ENDED"
  /\ all_jobs_are_enqueued' = TRUE
  /\ data_control_queue' = Tail(data_control_queue)
  /\ d_pc' = "ended"
  /\ ended_empty' = (/\ SumOver(jobs_added, Tables) = 0
                     /\ \A t \in Tables : SkippedOrTerminal(t))
  /\ UNCHANGED <<confVars, notified, lockVars, wake_loop, wake_pending, tableVars, db_schema_state,
                 ready_table_queue, data_job_queue, threads_waiting,
                 control_job_ended, tables_all_done, d_dbt, d_iter, d_giveup,
                 d_rj, workerVars,
                 parser_pc, jobs_added, dispatched, dispatch_log, last_dispatch,
                 index_enqueued, optimize_started>>

\* case FILE_TYPE_ENDED, line 367: the dispatcher posts a REQUEST_DATA_JOB
\* to itself.  No lock is held between the assignment of line 365 and this
\* push, so other threads may read the flag and push events before it.
FileEndedPush ==
  /\ d_pc = "ended"
  /\ data_control_queue' = Append(data_control_queue, "REQUEST_DATA_JOB")
  /\ d_pc' = "pop"
  /\ UNCHANGED <<confVars, notified, lockVars, wake_loop, wake_pending, tableVars, db_schema_state,
                 ready_table_queue, data_job_queue, threads_waiting,
                 all_jobs_are_enqueued, control_job_ended, tables_all_done,
                 d_dbt, d_iter, d_giveup, d_rj, workerVars, parser_pc,
                 jobs_added, histVars>>

\* case REQUEST_DATA_JOB (line 332): enters give_me_next_data_job_conf with
\* job = NULL and giveup = TRUE (lines 117-119).
HandleRequest ==
  /\ d_pc = "pop"
  /\ ~MutexHeld
  /\ data_control_queue # <<>>
  /\ Head(data_control_queue) = "REQUEST_DATA_JOB"
  /\ data_control_queue' = Tail(data_control_queue)
  /\ d_pc' = "fast"
  /\ d_giveup' = TRUE
  /\ d_rj' = NoJob
  /\ UNCHANGED <<confVars, notified, lockVars, wake_loop, wake_pending, tableVars, db_schema_state,
                 ready_table_queue, data_job_queue, threads_waiting,
                 all_jobs_are_enqueued, control_job_ended, tables_all_done,
                 d_dbt, d_iter, workerVars, parser_pc, jobs_added, histVars>>

\* g_async_queue_try_pop(conf->ready_table_queue) (line 126); on NULL the
\* fallback scan starts at the head of loading_table_list (lines 183-184).
FastPop ==
  /\ d_pc = "fast"
  /\ IF ready_table_queue = <<>>
     THEN /\ d_pc' = "scan"
          /\ d_iter' = 1
          /\ UNCHANGED <<d_dbt, ready_table_queue>>
     ELSE /\ d_pc' = "fastlock"
          /\ d_dbt' = Head(ready_table_queue)
          /\ ready_table_queue' = Tail(ready_table_queue)
          /\ UNCHANGED d_iter
  /\ UNCHANGED <<confVars, notified, lockVars, wake_loop, wake_pending, tableVars, db_schema_state,
                 data_control_queue, data_job_queue, threads_waiting,
                 all_jobs_are_enqueued, control_job_ended, tables_all_done,
                 d_giveup, d_rj, workerVars, parser_pc, jobs_added, histVars>>

\* Mutant of NotReadyOnPop: the thread-cap test (line 133) is missing.
NotReadyOnPop_NoCap(t) ==
  \/ schema_state[t] # CREATED
  \/ job_count[t] = 0
  \/ profile[t].no_data
  \/ profile[t].is_view
  \/ profile[t].is_sequence

\* The re-validation of a popped table (lines 131-136).
NotReadyOnPop(t) ==
  \/ schema_state[t] # CREATED
  \/ job_count[t] = 0
  \/ current_threads[t] >= profile[t].max_threads
  \/ profile[t].no_data
  \/ profile[t].is_view
  \/ profile[t].is_sequence

\* Mutant of FastFinalize: schema_state is not tested (line 141).
FastFinalize_AnyState(t) ==
  /\ job_count[t] = 0
  /\ current_threads[t] = 0
  /\ all_jobs_are_enqueued
  /\ remaining_jobs[t] = 0

\* The fast path's finalization test (lines 141-143).
FastFinalize(t) ==
  /\ schema_state[t] = CREATED
  /\ job_count[t] = 0
  /\ current_threads[t] = 0
  /\ all_jobs_are_enqueued
  /\ remaining_jobs[t] = 0

\* A table that passes every readiness condition other than the
\* in_ready_queue flag (lines 63-65 and 67-69; the negation of lines
\* 131-136).
Eligible(t) ==
  /\ schema_state[t] = CREATED
  /\ job_count[t] > 0
  /\ current_threads[t] < profile[t].max_threads
  /\ ~profile[t].no_data /\ ~profile[t].is_view /\ ~profile[t].is_sequence

\* Mutant of NextJob: the last job of the list is taken instead of the first.
NextJob_Last(t) ==
  [dbt |-> t, id |-> restore_job_list[t][Len(restore_job_list[t])]]

\* The job a dispatch takes from the table's list (lines 156, 240).
NextJob(t) == [dbt |-> t, id |-> Head(restore_job_list[t])]

\* Mutant of RestAfterDispatch: the dispatched link is not deleted.
RestAfterDispatch_Kept(t) == restore_job_list[t]

\* The table's list after the dispatch (lines 157, 241).
RestAfterDispatch(t) == Tail(restore_job_list[t])

\* The dispatch of one job of table t (lines 156-167 and 240-251): the head
\* of restore_job_list is taken, job_count goes down, current_threads goes
\* up, and the table is re-enqueued if it is still ready.  path is the
\* word the g_debug line of the dispatch prints: "queue" or "scan"; inq is
\* in_ready_queue at the call of enqueue_table_if_ready_locked, which the
\* fast path has cleared (line 128) and the scan has not touched.
DispatchJob(t, path, inq) ==
  /\ d_rj' = NextJob(t)
  /\ dispatch_log' = [dispatch_log EXCEPT ![t] = Append(@, path)]
  /\ last_dispatch' =
       [dbt |-> t, path |-> path, queued |-> (path = "queue" \/ inq),
        waiting |-> {u \in Tables \ {t} :
                       Occurrences(ready_table_queue, u) > 0 /\ Eligible(u)}]
  /\ restore_job_list' = [restore_job_list EXCEPT ![t] = RestAfterDispatch(t)]
  /\ job_count' = [job_count EXCEPT ![t] = @ - 1]
  /\ current_threads' = [current_threads EXCEPT ![t] = @ + 1]
  /\ enqueue_table_if_ready_locked(t, schema_state[t], job_count[t] - 1,
                                   current_threads[t] + 1, inq, "d")
  /\ d_giveup' = FALSE
  /\ d_pc' = IF ReadyToEnqueue(t, schema_state[t], job_count[t] - 1,
                               current_threads[t] + 1, inq)
            THEN "wake" ELSE "ret"
  /\ UNCHANGED <<schema_state, remaining_jobs, index_enqueued,
                 data_control_queue>>

\* The critical section on the popped table (lines 127-171).
FastLocked ==
  /\ d_pc = "fastlock"
  /\ ~TableLocked(d_dbt)
  /\ LET t == d_dbt IN
       IF NotReadyOnPop(t)
       THEN /\ in_ready_queue' = [in_ready_queue EXCEPT ![t] = FALSE]
            /\ IF FastFinalize(t)
               THEN /\ schema_state' = [schema_state EXCEPT ![t] = DATA_DONE]
                    /\ index_enqueued' = [index_enqueued EXCEPT ![t] = Append(@, "queue")]
               ELSE UNCHANGED <<schema_state, index_enqueued>>
            /\ d_pc' = "fast"
            /\ UNCHANGED <<restore_job_list, job_count, current_threads,
                           remaining_jobs, ready_table_queue, wake_pending,
                           data_control_queue, d_giveup, d_rj, dispatch_log, last_dispatch>>
       ELSE DispatchJob(t, "queue", FALSE)
  /\ d_dbt' = NoTable
  /\ UNCHANGED <<confVars, notified, lockVars, wake_loop, db_schema_state, data_job_queue,
                 threads_waiting, all_jobs_are_enqueued, control_job_ended,
                 tables_all_done, d_iter, workerVars, parser_pc, jobs_added,
                 dispatched, optimize_started,
                 ended_empty>>

\* The scan's test for a table it may not dispatch because all its worker
\* slots are taken (line 231).
AtMaxThreads(t) == current_threads[t] >= profile[t].max_threads

\* Mutant of ScanFinalize: all_jobs_are_enqueued is not tested.
ScanFinalize_NoParserCheck(t) ==
  /\ current_threads[t] = 0
  /\ remaining_jobs[t] = 0

\* The scan's finalization test (lines 260-261).
ScanFinalize(t) ==
  /\ all_jobs_are_enqueued
  /\ current_threads[t] = 0
  /\ remaining_jobs[t] = 0

\* The scan moves on to iter->next, or leaves the loop at the end of the
\* list and returns (lines 271, 280-282).
ScanAdvance ==
  IF d_iter = Len(loading_table_list)
  THEN d_pc' = "ret" /\ d_iter' = 0
  ELSE d_pc' = "scan" /\ d_iter' = d_iter + 1

\* Mutant of ScanGiveup: a table at its thread cap or without a schema
\* yet does not clear giveup (lines 212 and 232 missing).
ScanGiveup_KeptWhenBusy(t, s) ==
  IF s >= DATA_DONE
          \/ (s = CREATED /\ (profile[t].is_view \/ profile[t].is_sequence))
  THEN d_giveup
  ELSE IF s # CREATED THEN d_giveup
  ELSE IF job_count[t] > 0
  THEN d_giveup
  ELSE (IF ScanFinalize(t) THEN d_giveup ELSE FALSE)

\* Mutant of ScanGiveup: a skipped table clears giveup too.
ScanGiveup_ClearedOnSkip(t, s) ==
  IF s >= DATA_DONE
          \/ (s = CREATED /\ (profile[t].is_view \/ profile[t].is_sequence))
  THEN FALSE
  ELSE IF s # CREATED THEN FALSE
  ELSE IF job_count[t] > 0
  THEN (IF profile[t].no_data THEN d_giveup ELSE FALSE)
  ELSE (IF ScanFinalize(t) THEN d_giveup ELSE FALSE)

\* giveup after the scan visited table t under its lock, with schema_state
\* s, without dispatching: cleared at lines 212, 232 and 266, kept
\* otherwise.
ScanGiveup(t, s) ==
  IF s >= DATA_DONE
          \/ (s = CREATED /\ (profile[t].is_view \/ profile[t].is_sequence))
  THEN d_giveup
  ELSE IF s # CREATED THEN FALSE
  ELSE IF job_count[t] > 0
  THEN (IF profile[t].no_data THEN d_giveup ELSE FALSE)
  ELSE (IF ScanFinalize(t) THEN d_giveup ELSE FALSE)

\* Mutant of SkipGiveup: a table skipped for its database clears giveup.
SkipGiveup_Cleared == FALSE

\* giveup after the scan skipped a table at lines 194-197: untouched.
SkipGiveup == d_giveup

\* The head of one scan iteration (lines 189-197): the database state is
\* read without the table lock; a table of a NOT_FOUND database is skipped,
\* any other is locked next (table_lock, line 199, where the scan may wait).
ScanPrecheck ==
  /\ d_pc = "scan"
  /\ IF db_schema_state = NOT_FOUND
     THEN /\ ScanAdvance
          /\ d_giveup' = SkipGiveup
          /\ UNCHANGED d_dbt
     ELSE /\ d_pc' = "scanlock"
          /\ d_dbt' = loading_table_list[d_iter]
          /\ UNCHANGED <<d_iter, d_giveup>>
  /\ UNCHANGED <<confVars, notified, lockVars, wake_loop, wake_pending, tableVars,
                 db_schema_state, queueVars, threads_waiting,
                 all_jobs_are_enqueued, control_job_ended, tables_all_done,
                 d_rj, workerVars, parser_pc, jobs_added, histVars>>

\* The critical section of one scan iteration (lines 199-272), on the table
\* locked at line 199.  The database state is not read again.
ScanLocked ==
  /\ d_pc = "scanlock"
  /\ ~TableLocked(d_dbt)
  /\ LET t == d_dbt
         s == schema_state[t]
     IN
       IF s >= DATA_DONE
          \/ (s = CREATED /\ (profile[t].is_view \/ profile[t].is_sequence))
       THEN \* lines 203-208
            /\ ScanAdvance
            /\ d_giveup' = ScanGiveup(t, s)
            /\ UNCHANGED <<tableVars, ready_table_queue, wake_pending,
                           tables_all_done, d_rj, dispatch_log, last_dispatch, index_enqueued>>
       ELSE IF s # CREATED
       THEN \* lines 211-217
            /\ ScanAdvance
            /\ d_giveup' = ScanGiveup(t, s)
            /\ UNCHANGED <<tableVars, ready_table_queue, wake_pending,
                           tables_all_done, d_rj, dispatch_log, last_dispatch, index_enqueued>>
       ELSE IF job_count[t] > 0
       THEN IF profile[t].no_data
            THEN \* lines 221-230: the jobs' data are freed, the list and
                 \* job_count stay as they are
                 /\ schema_state' = [schema_state EXCEPT ![t] = ALL_DONE]
                 /\ tables_all_done' = tables_all_done + 1
                 /\ ScanAdvance
                 /\ d_giveup' = ScanGiveup(t, s)
                 /\ UNCHANGED <<restore_job_list, job_count, current_threads,
                                remaining_jobs, in_ready_queue,
                                ready_table_queue, wake_pending,
                                d_rj, dispatch_log, last_dispatch, index_enqueued>>
            ELSE IF AtMaxThreads(t)
            THEN \* lines 231-237
                 /\ ScanAdvance
                 /\ d_giveup' = ScanGiveup(t, s)
                 /\ UNCHANGED <<tableVars, ready_table_queue,
                                wake_pending, tables_all_done, d_rj,
                                dispatch_log, last_dispatch, index_enqueued>>
            ELSE \* lines 238-256: dispatch and break
                 /\ DispatchJob(t, "scan", in_ready_queue[t])
                 /\ d_iter' = 0
                 /\ UNCHANGED tables_all_done
       ELSE \* lines 257-268
            /\ IF ScanFinalize(t)
               THEN /\ schema_state' = [schema_state EXCEPT ![t] = DATA_DONE]
                    /\ index_enqueued' = [index_enqueued EXCEPT ![t] = Append(@, "scan")]
               ELSE UNCHANGED <<schema_state, index_enqueued>>
            /\ ScanAdvance
            /\ d_giveup' = ScanGiveup(t, s)
            /\ UNCHANGED <<restore_job_list, job_count, current_threads,
                           remaining_jobs, in_ready_queue, ready_table_queue,
                           wake_pending, tables_all_done, d_rj,
                           dispatch_log, last_dispatch>>
  /\ d_dbt' = NoTable
  /\ UNCHANGED <<confVars, notified, lockVars, wake_loop, db_schema_state, data_job_queue,
                 data_control_queue,
                 threads_waiting, all_jobs_are_enqueued, control_job_ended,
                 workerVars, parser_pc, jobs_added, dispatched,
                 optimize_started,
                 ended_empty>>

\* wake_data_threads called from enqueue_table_if_ready_locked (line 79,
\* lines 300-311) by the thread that holds the lock of table t, then the
\* table_unlock that follows the call (lines 87, 169, 253): threads_waiting
\* is read under threads_waiting_mutex once the mutex is free.
WakeAfterEnqueue(t) ==
  /\ TableLocked(t)
  /\ ~MutexHeld
  /\ data_control_queue' = wake_data_threads(data_control_queue)
  /\ wake_pending' = [wake_pending EXCEPT ![t] = "none"]
  /\ d_pc' = IF wake_pending[t] = "d" THEN "ret" ELSE d_pc
  /\ UNCHANGED <<confVars, notified, lockVars, wake_loop, tableVars, db_schema_state,
                 ready_table_queue, data_job_queue, threads_waiting,
                 all_jobs_are_enqueued, control_job_ended, tables_all_done,
                 d_dbt, d_iter, d_giveup, d_rj, workerVars, parser_pc,
                 jobs_added, histVars>>

\* A job was found: data_job_push(DATA_JOB, rj) (lines 335-337).
PushJob ==
  /\ d_pc = "ret"
  /\ d_rj # NoJob
  /\ data_job_queue' = Append(data_job_queue, d_rj)
  /\ dispatched' = [dispatched EXCEPT ![d_rj.dbt] = Append(@, d_rj.id)]
  /\ d_pc' = "pop"
  /\ d_rj' = NoJob
  /\ UNCHANGED <<confVars, notified, lockVars, wake_loop, wake_pending, tableVars, db_schema_state,
                 ready_table_queue, data_control_queue, threads_waiting,
                 all_jobs_are_enqueued, control_job_ended, tables_all_done,
                 d_dbt, d_iter, d_giveup, workerVars, parser_pc, jobs_added,
                 dispatch_log, last_dispatch, index_enqueued, optimize_started,
                 ended_empty>>

\* data_ended() (line 343; the loop it replaced is kept in the comment of
\* lines 345-351): one SHUTDOWN per data worker on the job channel.
data_ended(q) == q \o Repeat([dbt |-> "SHUTDOWN", id |-> 0], num_threads)

\* The give-up test of line 340.
ShouldGiveUp == all_jobs_are_enqueued /\ d_giveup

\* No job and nothing to wait for (lines 340-344): the loop ends.
GiveUp ==
  /\ d_pc = "ret"
  /\ d_rj = NoJob
  /\ ShouldGiveUp
  /\ control_job_ended' = TRUE
  /\ data_job_queue' = data_ended(data_job_queue)
  /\ d_pc' = "join"
  /\ UNCHANGED <<confVars, notified, lockVars, wake_loop, wake_pending, tableVars, db_schema_state,
                 ready_table_queue, data_control_queue, threads_waiting,
                 all_jobs_are_enqueued, tables_all_done, d_dbt, d_iter,
                 d_giveup, d_rj, workerVars, parser_pc, jobs_added, histVars>>

\* threads_waiting after the requesting thread is counted as waiting
\* (lines 355-356).
ParkCount == IF threads_waiting < num_threads THEN threads_waiting + 1
             ELSE threads_waiting

\* No job, but more may come (lines 352-358): the thread is left waiting.
Park ==
  /\ d_pc = "ret"
  /\ ~MutexHeld
  /\ d_rj = NoJob
  /\ ~ShouldGiveUp
  /\ threads_waiting' = ParkCount
  /\ d_pc' = "pop"
  /\ UNCHANGED <<confVars, notified, lockVars, wake_loop, wake_pending, tableVars, db_schema_state,
                 queueVars, all_jobs_are_enqueued, control_job_ended,
                 tables_all_done, d_dbt, d_iter, d_giveup, d_rj, workerVars,
                 parser_pc, jobs_added, histVars>>

\* Mutant of AllWorkersFinished: the dispatcher does not wait.
AllWorkersFinished_NoWait == TRUE

\* wait_loader_threads_to_finish (line 386) returns once every data worker
\* thread has ended.
AllWorkersFinished == \A w \in Workers : w_pc[w] = "exited"

\* After the loop (lines 386-387): wait_loader_threads_to_finish, then
\* start_optimize_keys_all_tables.
Join ==
  /\ d_pc = "join"
  /\ AllWorkersFinished
  /\ optimize_started' = optimize_started + 1
  /\ d_pc' = "done"
  /\ UNCHANGED <<confVars, notified, lockVars, wake_loop, wake_pending, tableVars, db_schema_state,
                 queueVars, threads_waiting, all_jobs_are_enqueued,
                 control_job_ended, tables_all_done, d_dbt, d_iter, d_giveup,
                 d_rj, workerVars, parser_pc, jobs_added, dispatched,
                 dispatch_log, last_dispatch, index_enqueued, ended_empty>>

\* ---------------------------------------------------------------- Next
Parser == ParserSchemaEnded \/ ParserFileEnded \/ \E t \in Tables : ParserAddJob(t)

SchemaWorkers == \E t \in Tables : SchemaCreated(t) \/ SchemaFailed(t)

IndexWorkers == \E t \in Tables : IndexDone(t)

DataWorkers ==
  \E w \in Workers : WorkerRequest(w) \/ WorkerTake(w) \/ WorkerComplete(w)

\* case SHUTDOWN (lines 371-374): cont = FALSE, nothing else.
HandleShutdown ==
  /\ d_pc = "pop"
  /\ ~MutexHeld
  /\ data_control_queue # <<>>
  /\ Head(data_control_queue) = "SHUTDOWN"
  /\ data_control_queue' = Tail(data_control_queue)
  /\ d_pc' = "join"
  /\ UNCHANGED <<confVars, notified, lockVars, wake_loop, wake_pending, tableVars,
                 db_schema_state, ready_table_queue, data_job_queue,
                 threads_waiting, all_jobs_are_enqueued, control_job_ended,
                 tables_all_done, d_dbt, d_iter, d_giveup, d_rj, workerVars,
                 parser_pc, jobs_added, histVars>>

\* One further iteration of the loop of wake_threads_waiting (lines
\* 292-296) in the thread that holds threads_waiting_mutex, and the unlock
\* of line 297 once threads_waiting is 0.
WakeLoopPush ==
  /\ MutexHeld
  /\ data_control_queue' = Append(data_control_queue, "REQUEST_DATA_JOB")
  /\ threads_waiting' = threads_waiting - 1
  /\ wake_loop' = IF threads_waiting - 1 = 0 THEN "none" ELSE wake_loop
  /\ UNCHANGED <<confVars, notified, lockVars, wake_pending, tableVars,
                 db_schema_state, ready_table_queue, data_job_queue,
                 all_jobs_are_enqueued, control_job_ended, tables_all_done,
                 dispVars, workerVars, parser_pc, jobs_added, histVars>>

\* wake_data_threads calls pending, and wake_threads_waiting loops running,
\* in any thread.
Wakers == WakeLoopPush \/ \E t \in Tables : WakeAfterEnqueue(t)

\* worker_loader_main_thread in a run where no thread posts SHUTDOWN: every
\* case of the switch but SHUTDOWN.
DispatcherNoShutdown ==
  \/ HandleWake
  \/ HandleSchemaEnded
  \/ HandleFileEnded
  \/ FileEndedPush
  \/ HandleRequest
  \/ FastPop
  \/ FastLocked
  \/ ScanPrecheck
  \/ ScanLocked
  \/ PushJob
  \/ GiveUp
  \/ Park
  \/ Join

\* worker_loader_main_thread.
Dispatcher == DispatcherNoShutdown \/ HandleShutdown

\* The run without a SHUTDOWN event.
Next ==
  \/ Parser \/ SchemaWorkers \/ IndexWorkers \/ DataWorkers \/ Wakers
  \/ DispatcherNoShutdown

Spec == Init /\ [][Next]_vars

\* ------------------------------- runs with repeated ready notifications
\* enqueue_table_if_ready (lines 84-88): table_lock, the locked version,
\* table_unlock.  Any thread may call it on any table at any time.
enqueue_table_if_ready(t) ==
  /\ Len(notified) < MaxNotify
  /\ ~TableLocked(t)
  /\ notified' = Append(notified, t)
  /\ enqueue_table_if_ready_locked(t, schema_state[t], job_count[t],
                                   current_threads[t], in_ready_queue[t],
                                   "notify")
  /\ UNCHANGED <<confVars, lockVars, wake_loop, schema_state, db_schema_state,
                 restore_job_list,
                 job_count, current_threads, remaining_jobs, data_job_queue,
                 data_control_queue,
                 threads_waiting, all_jobs_are_enqueued, control_job_ended,
                 tables_all_done, dispVars, workerVars, parser_pc, jobs_added,
                 histVars>>

\* One or two data workers and two base tables of one worker slot each.
InitNotify ==
  /\ Init
  /\ \A t \in Tables : profile[t].max_threads = 1 /\ ~profile[t].no_data
                        /\ ~profile[t].is_view /\ ~profile[t].is_sequence

NextNotify == Next \/ \E t \in Tables : enqueue_table_if_ready(t)

SpecNotify == InitNotify /\ [][NextNotify]_vars

\* ------------------------------------------- runs with one more data job
\* Two data workers, two base tables (the second with one worker slot),
\* and a dump of MaxJobs + 1 data jobs, so that one table can be dispatched
\* twice while the other has a job.
InitFair ==
  /\ InitWith(MaxJobs + 1)
  /\ num_threads = 2
  /\ \A t \in Tables : ~profile[t].no_data /\ ~profile[t].is_view
                        /\ ~profile[t].is_sequence
  /\ profile["t2"].max_threads = 1

SpecFair == InitFair /\ [][Next]_vars

\* ------------------------------------------------- runs with a SHUTDOWN
\* A SHUTDOWN control event is posted from outside, at most once while the
\* dispatcher runs its loop.
PostShutdown ==
  /\ d_pc \notin {"join", "done"}
  /\ Occurrences(data_control_queue, "SHUTDOWN") = 0
  /\ data_control_queue' = Append(data_control_queue, "SHUTDOWN")
  /\ UNCHANGED <<confVars, notified, lockVars, wake_loop, wake_pending, tableVars,
                 db_schema_state, ready_table_queue, data_job_queue,
                 threads_waiting, all_jobs_are_enqueued, control_job_ended,
                 tables_all_done, dispVars, workerVars, parser_pc, jobs_added,
                 histVars>>

NextShutdown ==
  \/ Parser \/ SchemaWorkers \/ IndexWorkers \/ DataWorkers \/ Wakers
  \/ Dispatcher \/ PostShutdown

SpecShutdown == Init /\ [][NextShutdown]_vars


\* ------------------------------------------------- lock-level runs
\* The mutexes of the file, one step per lock and unlock call.  A thread's
\* lk_pc is the source line it is about to execute.  The data conditions of
\* the branches between the lock calls are left open: every branch the code
\* has is taken nondeterministically, so the runs cover every order in which
\* the code can take the locks.  The per-table lock of table t is named t.
\* The locks inside GAsyncQueue are not modelled.
TableListMutex == "table_list_mutex"
ThreadsWaitingMutex == "threads_waiting_mutex"
NoLock == "none"
Locks == Tables \cup {TableListMutex, ThreadsWaitingMutex}

\* The control events the dispatcher's switch tells apart (lines 328-383).
LkEvents == {"WAKE_DATA_THREAD", "REQUEST_DATA_JOB", "FILE_TYPE_ENDED",
             "FILE_TYPE_SCHEMA_ENDED", "SHUTDOWN"}

\* The lock the thread is about to take, by the line it is at.
LkWants(th) ==
  CASE lk_pc[th] \in {"l291", "l305", "l325", "l354"} -> ThreadsWaitingMutex
    [] lk_pc[th] \in {"l85", "l127", "l199"} -> lk_dbt[th]
    [] lk_pc[th] = "l183" -> TableListMutex
    [] OTHER -> NoLock

LkHolder(l) == {th \in LockThreads : Occurrences(lk_held[th], l) > 0}

\* g_mutex_lock / table_lock: blocks until the mutex is free.
LkAcquire(th, from, to) ==
  /\ lk_pc[th] = from
  /\ LkHolder(LkWants(th)) = {}
  /\ lk_held' = [lk_held EXCEPT ![th] = Append(@, LkWants(th))]
  /\ lk_pc' = [lk_pc EXCEPT ![th] = to]

\* g_mutex_unlock / table_unlock of lock l.
LkRelease(th, l, from, to) ==
  /\ lk_pc[th] = from
  /\ lk_held' = [lk_held EXCEPT ![th] = SelectSeq(@, LAMBDA h : h # l)]
  /\ lk_pc' = [lk_pc EXCEPT ![th] = to]

LkGoto(th, from, to) ==
  /\ lk_pc[th] = from
  /\ lk_pc' = [lk_pc EXCEPT ![th] = to]

dataVars == <<confVars, notified, wake_pending, wake_loop, tableVars, db_schema_state, queueVars,
              threads_waiting, all_jobs_are_enqueued, control_job_ended,
              tables_all_done, dispVars, workerVars, parser_pc, jobs_added,
              histVars>>

\* Line 324: the dispatcher pops a control event; the event decides the case it
\* runs after the traced read of threads_waiting (lines 325-327).
LkPopEvent ==
  /\ \E e \in LkEvents :
       /\ LkGoto("d", "l324", "l325")
       /\ lk_ret' = [lk_ret EXCEPT !["d"] = e]
  /\ UNCHANGED <<dataVars, lk_held, lk_dbt, lk_iter>>

LkLoopLock ==
  /\ LkAcquire("d", "l325", "l327")
  /\ UNCHANGED <<dataVars, lk_dbt, lk_ret, lk_iter>>

\* Line 327, then the switch of line 328.
LkLoopUnlock ==
  /\ LkRelease("d", ThreadsWaitingMutex, "l327",
               CASE lk_ret["d"] \in {"WAKE_DATA_THREAD",
                                     "FILE_TYPE_SCHEMA_ENDED"} -> "l291"
                 [] lk_ret["d"] = "REQUEST_DATA_JOB" -> "l126"
                 [] lk_ret["d"] = "FILE_TYPE_ENDED" -> "l324"
                 [] OTHER -> "l386")
  /\ UNCHANGED <<dataVars, lk_dbt, lk_ret, lk_iter>>

\* wake_threads_waiting, lines 291-297.
LkWakeLock ==
  /\ LkAcquire("d", "l291", "l297")
  /\ UNCHANGED <<dataVars, lk_dbt, lk_ret, lk_iter>>

LkWakeUnlock ==
  /\ LkRelease("d", ThreadsWaitingMutex, "l297", "l324")
  /\ UNCHANGED <<dataVars, lk_dbt, lk_ret, lk_iter>>

\* Line 126: g_async_queue_try_pop gives a table or NULL.
LkFastPop ==
  /\ \/ \E t \in Tables :
          /\ LkGoto("d", "l126", "l127")
          /\ lk_dbt' = [lk_dbt EXCEPT !["d"] = t]
     \/ /\ LkGoto("d", "l126", "l183")
        /\ UNCHANGED lk_dbt
  /\ UNCHANGED <<dataVars, lk_held, lk_ret, lk_iter>>

LkFastLock ==
  /\ LkAcquire("d", "l127", "l131")
  /\ UNCHANGED <<dataVars, lk_dbt, lk_ret, lk_iter>>

\* Where the fast path goes when the re-check of lines 131-138 fails: to the
\* table_unlock of line 150.
LkAfterReject_NoUnlock == "l126"

LkAfterReject == "l150"

\* Lines 131-167: the re-check fails, or the job is taken and
\* enqueue_table_if_ready_locked is called.
LkFastRecheck ==
  /\ \/ LkGoto("d", "l131", LkAfterReject)
     \/ LkGoto("d", "l131", "l167")
  /\ UNCHANGED <<dataVars, lk_held, lk_dbt, lk_ret, lk_iter>>

LkFastReject ==
  /\ LkRelease("d", lk_dbt["d"], "l150", "l126")
  /\ UNCHANGED <<dataVars, lk_dbt, lk_ret, lk_iter>>

\* enqueue_table_if_ready_locked (lines 55-81) called at line `from`: the
\* table is ready and wake_data_threads is called (line 79), or it returns.
LkEnqueueLocked(th, from, ret) ==
  \/ /\ LkGoto(th, from, "l305")
     /\ lk_ret' = [lk_ret EXCEPT ![th] = ret]
  \/ /\ LkGoto(th, from, ret)
     /\ UNCHANGED lk_ret

LkFastEnqueue ==
  /\ LkEnqueueLocked("d", "l167", "l169")
  /\ UNCHANGED <<dataVars, lk_held, lk_dbt, lk_iter>>

LkFastUnlock ==
  /\ LkRelease("d", lk_dbt["d"], "l169", "l335")
  /\ UNCHANGED <<dataVars, lk_dbt, lk_ret, lk_iter>>

\* Line 183: the scan takes the table-list mutex.
LkScanLockList ==
  /\ LkAcquire("d", "l183", "l189")
  /\ lk_iter' = 1
  /\ UNCHANGED <<dataVars, lk_dbt, lk_ret>>

\* Lines 189-196: the list is exhausted, or the table is skipped without its
\* lock (database NOT_FOUND), or the table is locked.
LkScanVisit ==
  /\ lk_pc["d"] = "l189"
  /\ \/ /\ lk_iter > Len(loading_table_list)
        /\ LkGoto("d", "l189", "l280")
        /\ UNCHANGED <<lk_dbt, lk_iter>>
     \/ /\ lk_iter <= Len(loading_table_list)
        /\ lk_iter' = lk_iter + 1
        /\ UNCHANGED <<lk_pc, lk_dbt>>
     \/ /\ lk_iter <= Len(loading_table_list)
        /\ LkGoto("d", "l189", "l199")
        /\ lk_dbt' = [lk_dbt EXCEPT !["d"] = loading_table_list[lk_iter]]
        /\ UNCHANGED lk_iter
  /\ UNCHANGED <<dataVars, lk_held, lk_ret>>

LkScanLock ==
  /\ LkAcquire("d", "l199", "l203")
  /\ UNCHANGED <<dataVars, lk_dbt, lk_ret, lk_iter>>

\* The table_unlock calls of the scan that are followed by the next table.
ScanUnlockLines == {"l205", "l214", "l235", "l270"}

\* Lines 203-270: one of the branches that unlock and go on, or the dispatch
\* branch (lines 239-255).
LkScanBranch ==
  /\ \/ \E l \in ScanUnlockLines : LkGoto("d", "l203", l)
     \/ LkGoto("d", "l203", "l251")
  /\ UNCHANGED <<dataVars, lk_held, lk_dbt, lk_ret, lk_iter>>

LkScanUnlock ==
  /\ \E l \in ScanUnlockLines : LkRelease("d", lk_dbt["d"], l, "l189")
  /\ lk_iter' = lk_iter + 1
  /\ UNCHANGED <<dataVars, lk_dbt, lk_ret>>

LkScanEnqueue ==
  /\ LkEnqueueLocked("d", "l251", "l253")
  /\ UNCHANGED <<dataVars, lk_held, lk_dbt, lk_iter>>

\* Lines 253-255: table_unlock, break.
LkScanUnlockBreak ==
  /\ LkRelease("d", lk_dbt["d"], "l253", "l280")
  /\ UNCHANGED <<dataVars, lk_dbt, lk_ret, lk_iter>>

LkScanUnlockList ==
  /\ LkRelease("d", TableListMutex, "l280", "l335")
  /\ UNCHANGED <<dataVars, lk_dbt, lk_ret, lk_iter>>

\* Lines 335-358 after give_me_next_data_job_conf: a job is pushed, the
\* dispatcher gives up and leaves the loop, or the request is parked.
LkAfterGive ==
  /\ \/ LkGoto("d", "l335", "l324")
     \/ LkGoto("d", "l335", "l386")
     \/ LkGoto("d", "l335", "l354")
  /\ UNCHANGED <<dataVars, lk_held, lk_dbt, lk_ret, lk_iter>>

LkParkLock ==
  /\ LkAcquire("d", "l354", "l357")
  /\ UNCHANGED <<dataVars, lk_dbt, lk_ret, lk_iter>>

LkParkUnlock ==
  /\ LkRelease("d", ThreadsWaitingMutex, "l357", "l324")
  /\ UNCHANGED <<dataVars, lk_dbt, lk_ret, lk_iter>>

\* wake_data_threads, lines 305-310, in any thread.
LkWakeDataLock(th) ==
  /\ LkAcquire(th, "l305", "l310")
  /\ UNCHANGED <<dataVars, lk_dbt, lk_ret, lk_iter>>

LkWakeDataUnlock(th) ==
  /\ LkRelease(th, ThreadsWaitingMutex, "l310", lk_ret[th])
  /\ UNCHANGED <<dataVars, lk_dbt, lk_ret, lk_iter>>

\* A thread other than the dispatcher calls enqueue_table_if_ready(t)
\* (line 84) or wake_data_threads() (line 300).
LkCall(th) ==
  /\ th # "d"
  /\ \/ \E t \in Tables :
          /\ LkGoto(th, "idle", "l85")
          /\ lk_dbt' = [lk_dbt EXCEPT ![th] = t]
          /\ UNCHANGED lk_ret
     \/ /\ LkGoto(th, "idle", "l305")
        /\ lk_ret' = [lk_ret EXCEPT ![th] = "idle"]
        /\ UNCHANGED lk_dbt
  /\ UNCHANGED <<dataVars, lk_held, lk_iter>>

\* enqueue_table_if_ready, lines 85-87.
LkNotifyLock(th) ==
  /\ LkAcquire(th, "l85", "l86")
  /\ UNCHANGED <<dataVars, lk_dbt, lk_ret, lk_iter>>

LkNotifyEnqueue(th) ==
  /\ LkEnqueueLocked(th, "l86", "l87")
  /\ UNCHANGED <<dataVars, lk_held, lk_dbt, lk_iter>>

LkNotifyUnlock(th) ==
  /\ LkRelease(th, lk_dbt[th], "l87", "idle")
  /\ UNCHANGED <<dataVars, lk_dbt, lk_ret, lk_iter>>

LkDispatcher ==
  \/ LkPopEvent \/ LkLoopLock \/ LkLoopUnlock \/ LkWakeLock \/ LkWakeUnlock
  \/ LkFastPop \/ LkFastLock \/ LkFastRecheck \/ LkFastReject
  \/ LkFastEnqueue \/ LkFastUnlock
  \/ LkScanLockList \/ LkScanVisit \/ LkScanLock \/ LkScanBranch
  \/ LkScanUnlock \/ LkScanEnqueue \/ LkScanUnlockBreak \/ LkScanUnlockList
  \/ LkAfterGive \/ LkParkLock \/ LkParkUnlock

LkCallers ==
  \E th \in LockThreads :
    \/ LkWakeDataLock(th) \/ LkWakeDataUnlock(th)
    \/ LkCall(th) \/ LkNotifyLock(th) \/ LkNotifyEnqueue(th)
    \/ LkNotifyUnlock(th)

NextLocks == LkDispatcher \/ LkCallers

\* One configuration: the data state stays as constructed.
InitLocks ==
  /\ Init
  /\ num_threads = 1
  /\ \A t \in Tables : ~profile[t].is_view /\ ~profile[t].is_sequence
                       /\ ~profile[t].no_data /\ profile[t].max_threads = 1

SpecLocks == InitLocks /\ [][NextLocks]_vars


\* ================================================================ claims
\* The job with id i of table t.
Job(t, i) == [dbt |-> t, id |-> i]

\* The ids 1 .. n in order.
Ids(n) == [k \in 1 .. n |-> k]

\* The parser is done, every table's schema work has completed and every
\* dispatched job has been acknowledged.
AllWorkAcknowledged ==
  /\ parser_pc = "done"
  /\ \A t \in Tables : schema_state[t] >= CREATED /\ current_threads[t] = 0
  /\ d_rj = NoJob
  /\ \A k \in 1 .. Len(data_job_queue) : data_job_queue[k].dbt = "SHUTDOWN"

\* C1: every table has 0 <= current_threads <= max_threads in every
\* reachable state.
C1_InFlightWithinCap ==
  \A t \in Tables :
    0 <= current_threads[t] /\ current_threads[t] <= profile[t].max_threads

\* C1 witness: the dispatcher returned no job while a table that still has
\* pending jobs runs at its cap.
C1_Witness ==
  /\ d_pc = "ret"
  /\ d_rj = NoJob
  /\ \E t \in Tables : /\ current_threads[t] = profile[t].max_threads
                       /\ job_count[t] > 0
                       /\ "queue" \in {dispatch_log[t][k] : k \in 1 .. Len(dispatch_log[t])}

\* C2: every job the parser added is in exactly one place: still in its
\* table's restore_job_list, in the dispatcher's hand (rj), or pushed to the
\* job channel exactly once; a pushed job is in the channel or with one
\* worker at most.
C2_DispatchedExactlyOnce ==
  \A t \in Tables : \A i \in 1 .. jobs_added[t] :
    /\ Occurrences(restore_job_list[t], i)
         + (IF d_rj = Job(t, i) THEN 1 ELSE 0)
         + Occurrences(dispatched[t], i) = 1
    /\ Occurrences(data_job_queue, Job(t, i))
         + Cardinality({w \in Workers : w_job[w] = Job(t, i)})
         <= Occurrences(dispatched[t], i)

\* C2 witness: one table had one job dispatched by the fast path and another
\* by the scan, both pushed to the job channel.
C2_Witness ==
  \E t \in Tables :
    /\ Len(dispatched[t]) = 2
    /\ \E j, k \in 1 .. 2 : dispatch_log[t][j] = "queue" /\ dispatch_log[t][k] = "scan"

\* C3 (termination, in the form a finite run refutes): once the parser is
\* done, all schema work has completed and every dispatched job is
\* acknowledged, the dispatcher has set control_job_ended or some thread can
\* still take a step.
C3_Termination ==
  AllWorkAcknowledged => (control_job_ended \/ ENABLED Next)

\* C4 (no lost wakeup): no reachable state has a non-empty ready queue while
\* the control queue and the job channel are empty, every data worker is
\* blocked on the job channel, the dispatcher is blocked on the control
\* queue and no other thread can take a step either.
C4_NoLostWakeup ==
  ~(/\ ready_table_queue # <<>>
    /\ data_control_queue = <<>>
    /\ data_job_queue = <<>>
    /\ \A w \in Workers : w_pc[w] = "wait"
    /\ d_pc = "pop"
    /\ ~ENABLED Next)

\* C5 as claimed: in_ready_queue implies exactly one occurrence in the ready
\* queue.
C5_FlagImpliesQueuedOnce ==
  \A t \in Tables :
    in_ready_queue[t] => Occurrences(ready_table_queue, t) = 1

\* C5 amended: a table never occurs twice in the ready queue, it occurs only
\* with its flag set, and a table with its flag set occurs exactly once
\* unless the dispatcher has popped it and has not yet taken its lock.
C5_FlagMatchesQueue ==
  \A t \in Tables :
    /\ Occurrences(ready_table_queue, t) <= 1
    /\ Occurrences(ready_table_queue, t) = 1 => in_ready_queue[t]
    /\ in_ready_queue[t] =>
         \/ Occurrences(ready_table_queue, t) = 1
         \/ d_pc = "fastlock" /\ d_dbt = t

\* C5 witness: a table was re-enqueued by a dispatch and is queued once
\* while the other table is popped and not yet locked.
C5_Witness ==
  \E t, u \in Tables :
    /\ t # u
    /\ in_ready_queue[t] /\ Occurrences(ready_table_queue, t) = 1
    /\ Len(dispatch_log[t]) >= 1
    /\ d_pc = "fastlock" /\ d_dbt = u /\ in_ready_queue[u]

\* C6: per table, the jobs pushed to the job channel are, in order, a prefix
\* of the jobs the parser added.
C6_PerTableFifo ==
  \A t \in Tables :
    /\ Len(dispatched[t]) <= jobs_added[t]
    /\ dispatched[t] = Ids(Len(dispatched[t]))

\* C6 witness: two jobs of one table were pushed, the first taken by the
\* scan and the second by the fast path.
C6_Witness ==
  \E t \in Tables :
    /\ dispatched[t] = <<1, 2>>
    /\ dispatch_log[t] = <<"scan", "queue">>

\* C7: a dispatcher step that moves a table to DATA_DONE finds it CREATED
\* with all_jobs_are_enqueued set, no pending job, no job in flight and
\* remaining_jobs = 0.
C7_DataDoneOnlyWhenDrained ==
  [][\A t \in Tables :
       (d_pc \in {"fastlock", "scanlock"} /\ d_pc' # d_pc
          /\ schema_state[t] # DATA_DONE /\ schema_state'[t] = DATA_DONE)
       => (/\ schema_state[t] = CREATED
           /\ all_jobs_are_enqueued
           /\ restore_job_list[t] = <<>>
           /\ job_count[t] = 0
           /\ current_threads[t] = 0
           /\ remaining_jobs[t] = 0)]_vars

\* C7 witness: one table was finalized by the fast path's recheck and the
\* other by the scan.
C7_Witness ==
  \E t, u \in Tables :
    /\ index_enqueued[t] = <<"queue">>
    /\ index_enqueued[u] = <<"scan">>

\* C8: a table in ALL_DONE has no pending job and no job in flight.
C8_AllDoneIsEmpty ==
  \A t \in Tables :
    schema_state[t] = ALL_DONE =>
      /\ restore_job_list[t] = <<>>
      /\ job_count[t] = 0
      /\ current_threads[t] = 0

\* C9: no dispatch takes a job of a table whose database is NOT_FOUND.
C9_NotFoundNeverDispatched ==
  [][(d_rj = NoJob /\ d_rj' # NoJob) => db_schema_state # NOT_FOUND]_vars

\* C10 as claimed: when control_job_ended is set, the jobs pushed to the job
\* channel are exactly the jobs added to the tables that are not no_data.
C10_AllJobsDispatchedAtEnd ==
  control_job_ended =>
    \A t \in Tables :
      ~profile[t].no_data =>
        /\ restore_job_list[t] = <<>>
        /\ dispatched[t] = Ids(jobs_added[t])

\* C10 amended: the same for the base tables whose database is not
\* NOT_FOUND; of any table, only jobs that were added are pushed.
C10_AllJobsDispatchedUnlessNotFound ==
  control_job_ended =>
    \A t \in Tables :
      /\ dispatched[t] = Ids(Len(dispatched[t])) /\ Len(dispatched[t]) <= jobs_added[t]
      /\ (/\ ~profile[t].no_data
          /\ ~profile[t].is_view /\ ~profile[t].is_sequence
          /\ db_schema_state # NOT_FOUND) =>
           /\ restore_job_list[t] = <<>>
           /\ dispatched[t] = Ids(jobs_added[t])

\* C10 witness: the dispatcher ended with a healthy database after it
\* dispatched every job of a table.
C10_Witness ==
  /\ control_job_ended
  /\ db_schema_state # NOT_FOUND
  /\ \E t \in Tables : jobs_added[t] = 2 /\ Len(dispatched[t]) = 2

\* C11: a no_data table is never in the ready queue nor flagged as queued
\* nor popped from the queue, none of its jobs is dispatched or pushed to the
\* job channel, and
\* tables_all_done counts exactly the no_data tables the scan found CREATED
\* with pending jobs and moved to ALL_DONE (one increment per such table).
C11_NoDataNeverDispatched ==
  /\ \A t \in Tables :
       profile[t].no_data =>
         /\ ~in_ready_queue[t]
         /\ Occurrences(ready_table_queue, t) = 0
         /\ d_pc = "fastlock" => d_dbt # t
         /\ wake_pending[t] = "none"
         /\ d_rj.dbt # t
         /\ dispatched[t] = <<>>
         /\ dispatch_log[t] = <<>>
         /\ current_threads[t] = 0
  /\ tables_all_done =
       Cardinality({t \in Tables : /\ profile[t].no_data
                                   /\ schema_state[t] = ALL_DONE
                                   /\ job_count[t] > 0})

\* C11 witness: the run ended after the scan moved a no_data table with two
\* pending jobs to ALL_DONE, counted once.
C11_Witness ==
  /\ control_job_ended
  /\ tables_all_done = 1
  /\ \E t \in Tables : /\ profile[t].no_data
                       /\ jobs_added[t] = 2
                       /\ schema_state[t] = ALL_DONE

\* C12: enqueue_index_for_dbt_if_possible is called at most once per table,
\* only for a table that has left CREATED, and every table in DATA_DONE had
\* its call.
C12_IndexHandOffOnce ==
  \A t \in Tables :
    /\ Len(index_enqueued[t]) <= 1
    /\ Len(index_enqueued[t]) = 1 => schema_state[t] >= DATA_DONE
    /\ schema_state[t] = DATA_DONE => Len(index_enqueued[t]) = 1

\* C12 witness: a table was handed to the index path once, and afterwards
\* the dispatcher popped it from the ready queue again.
C12_Witness ==
  /\ d_pc = "fastlock"
  /\ d_dbt \in Tables
  /\ Len(index_enqueued[d_dbt]) = 1
  /\ schema_state[d_dbt] >= DATA_DONE

\* C13: start_optimize_keys_all_tables is called at most once, by the
\* dispatcher after its loop has ended and when every data worker has
\* finished; once the loop has ended the dispatcher pops no control event,
\* takes no job and pushes none.
C13_OptimizeOnceAfterExit ==
  [][/\ optimize_started' # optimize_started =>
          /\ optimize_started = 0 /\ optimize_started' = 1
          /\ d_pc = "join" /\ d_pc' = "done"
          /\ \A w \in Workers : w_pc[w] = "exited"
     /\ d_pc \in {"join", "done"} =>
          /\ d_pc' \in {"join", "done"}
          /\ d_pc = "done" => d_pc' = "done" /\ optimize_started' = 1
          /\ Len(data_control_queue') >= Len(data_control_queue)
          /\ SubSeq(data_control_queue', 1, Len(data_control_queue)) = data_control_queue
          /\ d_rj' = NoJob
          /\ dispatched' = dispatched
          /\ dispatch_log' = dispatch_log]_vars

\* C13 witness: the optimize step ran after a give-up that left a control
\* event unhandled in the control queue.
C13_Witness ==
  /\ optimize_started = 1
  /\ control_job_ended
  /\ data_control_queue # <<>>

\* C14 (empty dump): if FILE_TYPE_ENDED was handled when no job had been
\* added and every table was terminal or skipped by the scan, then every
\* return of give_me_next_data_job_conf from then on has no job and giveup
\* TRUE, and the dispatcher's next step sets control_job_ended and leaves
\* the loop with threads_waiting untouched (it does not park).
C14_EmptyDumpEnds ==
  [][(ended_empty /\ d_pc = "ret") =>
       /\ d_rj = NoJob
       /\ d_giveup
       /\ d_pc' # d_pc =>
            /\ control_job_ended'
            /\ d_pc' = "join"
            /\ threads_waiting' = threads_waiting]_vars

\* C14 witness: the dispatcher ended an empty dump.
C14_Witness ==
  /\ ended_empty
  /\ control_job_ended
  /\ \A t \in Tables : jobs_added[t] = 0

WakeHandled ==
  /\ d_pc = "pop"
  /\ data_control_queue # <<>>
  /\ Head(data_control_queue) = "WAKE_DATA_THREAD"
  /\ Occurrences(data_control_queue', "WAKE_DATA_THREAD")
       < Occurrences(data_control_queue, "WAKE_DATA_THREAD")

\* C16: handling one WAKE_DATA_THREAD event with threads_waiting > 0 posts
\* exactly one REQUEST_DATA_JOB: the handling step posts one and the handler
\* is finished with it (it does not stay in the loop to post another).
C16_WakePostsOne ==
  [][(WakeHandled /\ threads_waiting > 0) =>
       /\ Occurrences(data_control_queue', "REQUEST_DATA_JOB")
            = Occurrences(data_control_queue, "REQUEST_DATA_JOB") + 1
       /\ wake_loop' = "none"]_vars

\* C17: once the database is NOT_FOUND, no step of give_me_next_data_job_conf
\* (fast path or scan) changes the schema_state of one of its tables.
C17_NotFoundTablesLeftAlone ==
  [][(/\ db_schema_state = NOT_FOUND
      /\ d_pc \in {"fastlock", "scanlock"}
      /\ d_pc' # d_pc) =>
        schema_state' = schema_state]_vars

\* C20: in the step that sets control_job_ended, all_jobs_are_enqueued is
\* TRUE, no table has a job in flight, and no pushed job waits in the job
\* channel or runs in a worker.
C20_EndOnlyWhenIdle ==
  [][(~control_job_ended /\ control_job_ended') =>
       /\ all_jobs_are_enqueued
       /\ \A t \in Tables : current_threads[t] = 0
       /\ data_job_queue = <<>>
       /\ \A w \in Workers : w_pc[w] # "exec"]_vars

\* C18 as claimed: a table that was in the ready queue when it was
\* dispatched is not dispatched again while another table, queued and
\* eligible at that dispatch, has had no dispatch (such a table stays queued
\* and eligible in between).
C18_NoDoubleDispatchAhead ==
  [][(/\ d_rj = NoJob /\ d_rj' # NoJob
      /\ d_rj'.dbt = last_dispatch.dbt
      /\ last_dispatch.queued) =>
        last_dispatch.waiting = {}]_vars

\* C18 amended: the same when the first of the two dispatches was taken
\* from the ready queue.
C18_NoDoubleDispatchFromQueue ==
  [][(/\ d_rj = NoJob /\ d_rj' # NoJob
      /\ d_rj'.dbt = last_dispatch.dbt
      /\ last_dispatch.path = "queue") =>
        last_dispatch.waiting = {}]_vars

\* C18 witness: a table was dispatched from the ready queue while the other
\* one was queued and eligible, and was re-enqueued behind it with a job
\* left.
C18_Witness ==
  \E a, b \in Tables :
    /\ last_dispatch = [dbt |-> a, path |-> "queue", queued |-> TRUE, waiting |-> {b}]
    /\ ready_table_queue = <<b, a>>
    /\ job_count[a] > 0
    /\ d_pc = "fast"

\* The table locks thread th holds.
TableLocksHeld(th) == {t \in Tables : th \in LkHolder(t)}

\* Thread a is about to take a lock that thread b holds.
LkWaitsFor(a, b) == LkWants(a) # NoLock /\ b \in LkHolder(LkWants(a))

\* A chain of lock waits of at most three links (there are three threads).
LkWaitsChain(a, b) ==
  \/ LkWaitsFor(a, b)
  \/ \E c \in LockThreads : LkWaitsFor(a, c) /\ LkWaitsFor(c, b)
  \/ \E c, e \in LockThreads :
       LkWaitsFor(a, c) /\ LkWaitsFor(c, e) /\ LkWaitsFor(e, b)

\* C19: no thread holds two table locks at once; no thread is about to take
\* the table-list lock while it holds a table lock; no thread is about to
\* take a table lock or the table-list lock while it holds
\* threads_waiting_mutex; and no cycle of lock waits exists (no thread waits,
\* directly or through other waiting threads, for a lock it holds itself).
C19_LockDiscipline ==
  \A th \in LockThreads :
    /\ Cardinality(TableLocksHeld(th)) <= 1
    /\ LkWants(th) = TableListMutex => TableLocksHeld(th) = {}
    /\ th \in LkHolder(ThreadsWaitingMutex)
         => LkWants(th) \notin Tables \cup {TableListMutex}
    /\ ~LkWaitsChain(th, th)

\* The deepest nesting of the file is reached: the dispatcher's scan holds the
\* table-list lock, a table lock and threads_waiting_mutex (wake_data_threads
\* called from line 251), while another thread waits for that table lock in
\* enqueue_table_if_ready and a third waits for threads_waiting_mutex.
C19_Witness ==
  \E t \in Tables :
    /\ lk_held["d"] = <<TableListMutex, t, ThreadsWaitingMutex>>
    /\ lk_pc["n1"] = "l85" /\ lk_dbt["n1"] = t
    /\ lk_pc["n2"] = "l305" /\ lk_held["n2"] # <<>>
====
